---- MODULE Spec2Model ----
(***************************************************************************)
(* Model of hxcmp: the props encoder (lib/encoding), the generated props   *)
(* codec and dispatcher (lib/generator template), and the registry with    *)
(* its reflective dispatcher.                                              *)
(*                                                                         *)
(* Bytes are integers 0..255.  A token is a sequence of characters; a      *)
(* character 0..63 is the base64url letter with that 6-bit value, 64 is    *)
(* '.', 65 is a line break and 66 is any other character outside the       *)
(* alphabet.  Strings inside props are byte sequences.                     *)
(*                                                                         *)
(* SHA-256, HMAC-SHA256 and AES-256-GCM are library primitives.  They are  *)
(* represented by a keyed position-weighted checksum of the real output    *)
(* length: deterministic, dependent on the key and on every input byte.    *)
(***************************************************************************)
EXTENDS Integers, Sequences, FiniteSets, TLC

VARIABLES
    \* --- props codec runs (Encode / tamper / Decode) ---
    cpc,        \* position of the codec run: "start", "encoded", "decoded",
                \* or "nokey" when NewEncoder returned an error
    secret,     \* secret the encoding Encoder was created with
    decSecret,  \* secret the decoding Encoder was created with
    sensitive,  \* security mode of the run (TRUE = encrypted)
    decSensitive, \* security mode Decode was told to expect
    nonce,      \* nonce rand.Read returned
    x,          \* props value given to Encode
    token,      \* the token (sequence of characters)
    tampered,   \* TRUE once one character of the token was replaced
    out         \* result of Decode: [err, props]

cvars == <<cpc, secret, decSecret, sensitive, decSensitive, nonce, x, token, tampered, out>>

VARIABLES
    \* --- registry and request dispatch ---
    components, \* Registry.components: prefix -> component
    added,      \* the components passed to Registry.Add, in call order
    onError,    \* Registry.OnError: "default" or "custom"
    panicked,   \* TRUE once Add has panicked
    pc,         \* position of the request being served
    req,        \* the request: [method, hx, target, path, token]
    w,          \* the http.ResponseWriter
    props,      \* the props value of the request
    result,     \* the Result[P] the action handler returned
    log         \* what has happened to the request, in order: [ev, arg]

dvars == <<components, added, onError, panicked, pc, req, w, props, result, log>>

(* component construction *)
VARIABLES
    built,      \* the components New has returned, each with its call site
                \* and the modes of the tokens it has issued
    defs,       \* the actionDef values one component's Action calls allocated,
                \* in call order; an ActionBuilder points at one of them
    actions     \* that component's c.actions: name -> the actionDef it holds

nvars == <<built, defs, actions>>

(* concurrent use of one registry *)
VARIABLES
    mu,         \* reg.mu: [w |-> the goroutine holding Lock or "", r |-> those holding RLock]
    mux,        \* the patterns reg.mux handles
    call,       \* each goroutine's call of Add or Get: [pc, args, i]
    seen        \* what the last Get found: [comps, routes]

lvars == <<mu, mux, call, seen>>

vars == <<cvars, dvars, nvars, lvars>>

----------------------------------------------------------------------------
(* Characters outside the base64url alphabet *)
Dot == 64
NL == 65
Bad == 66

(* Sizes fixed by the code and the primitives it calls *)
KeySize == 32
MacSize == 16
NonceSize == 12
TagSize == 16

NoErr == "nil"

(* sentinel errors of package hxcmp *)
ErrNotFound == "hxcmp: resource not found"
ErrDecryptFailed == "hxcmp: parameter decryption failed"
ErrSignatureInvalid == "hxcmp: signature verification failed"
ErrInvalidFormat == "hxcmp: invalid parameter format"
ErrHydrationFailed == "hxcmp: hydration failed"

(* errors.Is: the model's errors are unwrapped values *)
Is(err, target) == err = target

----------------------------------------------------------------------------
(* base64.RawURLEncoding *)

RECURSIVE EncodeToString(_)
EncodeToString(s) ==
    IF Len(s) = 0 THEN <<>>
    ELSE IF Len(s) = 1 THEN << s[1] \div 4, (s[1] % 4) * 16 >>
    ELSE IF Len(s) = 2
         THEN << s[1] \div 4, (s[1] % 4) * 16 + (s[2] \div 16), (s[2] % 16) * 4 >>
    ELSE << s[1] \div 4, (s[1] % 4) * 16 + (s[2] \div 16),
            (s[2] % 16) * 4 + (s[3] \div 64), s[3] % 64 >>
         \o EncodeToString(SubSeq(s, 4, Len(s)))

RECURSIVE DecodeQuanta(_)
DecodeQuanta(c) ==
    IF Len(c) = 0 THEN <<>>
    ELSE IF Len(c) = 2 THEN << c[1] * 4 + (c[2] \div 16) >>
    ELSE IF Len(c) = 3
         THEN << c[1] * 4 + (c[2] \div 16), (c[2] % 16) * 16 + (c[3] \div 4) >>
    ELSE << c[1] * 4 + (c[2] \div 16), (c[2] % 16) * 16 + (c[3] \div 4),
            (c[3] % 4) * 64 + c[4] >>
         \o DecodeQuanta(SubSeq(c, 5, Len(c)))

(* The decoder skips line breaks, rejects every other character outside    *)
(* the alphabet and a dangling single character, and (not being Strict)    *)
(* ignores the unused low bits of the last character.                      *)
DecodeString(s) ==
    LET c == SelectSeq(s, LAMBDA ch : ch # NL)
    IN  IF (\E i \in 1..Len(c) : c[i] > 63) \/ Len(c) % 4 = 1
        THEN [err |-> "illegal base64 data", data |-> <<>>]
        ELSE [err |-> NoErr, data |-> DecodeQuanta(c)]

----------------------------------------------------------------------------
(* Library primitives *)

(* the sum over k >= i of (d[k] + 1), weighted by k when wt is TRUE *)
RECURSIVE WSum(_, _, _)
WSum(d, i, wt) ==
    IF i > Len(d) THEN 0
    ELSE ((IF wt THEN i ELSE 1) * (d[i] + 1) + WSum(d, i + 1, wt)) % 256

(* n bytes; byte j is the sum over i of (i + j) * (d[i] + 1), plus         *)
(* Len(d) * (2j + 1), modulo 256                                            *)
Digest(d, n) ==
    LET s0 == WSum(d, 1, FALSE)
        s1 == WSum(d, 1, TRUE)
    IN  [j \in 1..n |-> (Len(d) * (2 * j + 1) + s1 + j * s0) % 256]

Sum256(d) == Digest(d, KeySize)

HMAC(key, d) == Sum256(key \o d)

KeyStream(key, iv) == Sum256(key \o iv)

Seal(key, iv, pt) ==
    LET ks == KeyStream(key, iv)
        ct == [i \in 1..Len(pt) |-> (pt[i] + ks[((i - 1) % KeySize) + 1]) % 256]
    IN  ct \o Digest(key \o iv \o ct, TagSize)

Open(key, iv, sealed) ==
    IF Len(sealed) < TagSize
    THEN [err |-> "cipher: message authentication failed", data |-> <<>>]
    ELSE LET ct  == SubSeq(sealed, 1, Len(sealed) - TagSize)
             tag == SubSeq(sealed, Len(sealed) - TagSize + 1, Len(sealed))
             ks  == KeyStream(key, iv)
         IN  IF Digest(key \o iv \o ct, TagSize) # tag
             THEN [err |-> "cipher: message authentication failed", data |-> <<>>]
             ELSE [err |-> NoErr,
                   data |-> [i \in 1..Len(ct) |->
                               (ct[i] + 256 - ks[((i - 1) % KeySize) + 1]) % 256]]

----------------------------------------------------------------------------
(* Encoder (lib/encoding) *)

(* NewEncoder: a key shorter than 32 bytes is replaced by its SHA-256; the  *)
(* key is then handed to aes.NewCipher, which accepts 16, 24 or 32 bytes.   *)
(* a constructor that ignores the secret it is given *)
NewEncoderFixedKey(k) == [err |-> NoErr, key |-> [i \in 1..KeySize |-> 0]]

NewEncoder(k) ==
    LET key == IF Len(k) < KeySize THEN Sum256(k) ELSE k
    IN  IF Len(key) \in {16, 24, 32}
        THEN [err |-> NoErr, key |-> key]
        ELSE [err |-> "crypto/aes: invalid key size", key |-> <<>>]

sign(e, data) ==
    EncodeToString(data) \o <<Dot>>
        \o EncodeToString(SubSeq(HMAC(e.key, data), 1, MacSize))

(* strings.SplitN(encoded, ".", 2) *)
FirstDot(s) ==
    IF \E i \in 1..Len(s) : s[i] = Dot
    THEN CHOOSE i \in 1..Len(s) : s[i] = Dot /\ \A j \in 1..(i - 1) : s[j] # Dot
    ELSE 0

(* verify that accepts any well-formed signature *)
verifyAnySignature(e, encoded) ==
    LET d == FirstDot(encoded) IN
    IF d = 0
    THEN [err |-> "invalid format: missing signature", data |-> <<>>]
    ELSE LET data == DecodeString(SubSeq(encoded, 1, d - 1))
             sig  == DecodeString(SubSeq(encoded, d + 1, Len(encoded)))
         IN  IF data.err # NoErr THEN [err |-> data.err, data |-> <<>>]
             ELSE IF sig.err # NoErr THEN [err |-> sig.err, data |-> <<>>]
             ELSE [err |-> NoErr, data |-> data.data]

verify(e, encoded) ==
    LET d == FirstDot(encoded) IN
    IF d = 0
    THEN [err |-> "invalid format: missing signature", data |-> <<>>]
    ELSE LET data == DecodeString(SubSeq(encoded, 1, d - 1))
             sig  == DecodeString(SubSeq(encoded, d + 1, Len(encoded)))
         IN  IF data.err # NoErr THEN [err |-> data.err, data |-> <<>>]
             ELSE IF sig.err # NoErr THEN [err |-> sig.err, data |-> <<>>]
             ELSE IF sig.data # SubSeq(HMAC(e.key, data.data), 1, MacSize)
                  THEN [err |-> "signature verification failed", data |-> <<>>]
             ELSE [err |-> NoErr, data |-> data.data]

(* encrypt: iv is what rand.Read put into the nonce *)
encrypt(e, iv, data) == EncodeToString(iv \o Seal(e.key, iv, data))

decrypt(e, encoded) ==
    LET ct == DecodeString(encoded) IN
    IF ct.err # NoErr THEN [err |-> ct.err, data |-> <<>>]
    ELSE IF Len(ct.data) < NonceSize
         THEN [err |-> "ciphertext too short", data |-> <<>>]
    ELSE Open(e.key, SubSeq(ct.data, 1, NonceSize),
              SubSeq(ct.data, NonceSize + 1, Len(ct.data)))

----------------------------------------------------------------------------
(* msgpack (vmihailenco/msgpack/v5), as far as map[string]any payloads of   *)
(* strings, booleans and integers need it.  A Go value is [t, v]: its       *)
(* dynamic type and its value.  Integers are kept within 24 bits.           *)

LowBits(n) == (n + 16777216) % 16777216

BigEndian(n, sz) ==
    [i \in 1..sz |-> IF sz - i >= 3 THEN (IF n < 0 THEN 255 ELSE 0)
                    ELSE (LowBits(n) \div (256 ^ (sz - i))) % 256]

RECURSIVE FromBigEndian(_)
FromBigEndian(b) ==
    IF Len(b) = 0 THEN 0 ELSE b[Len(b)] + 256 * FromBigEndian(SubSeq(b, 1, Len(b) - 1))

(* the unsigned value of sz bytes at pos; the signed one *)
UintAt(b, pos, sz) ==
    FromBigEndian(SubSeq(b, IF sz > 3 THEN pos + sz - 3 ELSE pos, pos + sz - 1))
IntAt(b, pos, sz) ==
    IF b[pos] >= 128 THEN UintAt(b, pos, sz) - 256 ^ (IF sz > 3 THEN 3 ELSE sz)
    ELSE UintAt(b, pos, sz)

EncodeString(s) == <<160 + Len(s)>> \o s

(* EncodeUint / EncodeInt pick the shortest form *)
EncodeUint(n) ==
    IF n <= 127 THEN <<n>>
    ELSE IF n <= 255 THEN <<204, n>>
    ELSE IF n <= 65535 THEN <<205>> \o BigEndian(n, 2)
    ELSE <<206>> \o BigEndian(n, 4)

EncodeInt(n) ==
    IF n >= 0 THEN EncodeUint(n)
    ELSE IF n >= -32 THEN <<256 + n>>
    ELSE IF n >= -128 THEN <<208, 256 + n>>
    ELSE IF n >= -32768 THEN <<209>> \o BigEndian(n, 2)
    ELSE <<210>> \o BigEndian(n, 4)

(* EncodeInt64 always writes the 9-byte form (UseCompactInts is off) *)
EncodeInt64(n) == <<211>> \o BigEndian(n, 8)

(* Encoder.Encode(v any): int and uint go through EncodeInt / EncodeUint,  *)
(* int64 through EncodeInt64                                                *)
EncodeAny(val) ==
    CASE val.t = "string" -> EncodeString(val.v)
      [] val.t = "bool"   -> IF val.v THEN <<195>> ELSE <<194>>
      [] val.t = "int"    -> EncodeInt(val.v)
      [] val.t = "int64"  -> EncodeInt64(val.v)
      [] OTHER            -> <<192>>

RECURSIVE LexLess(_, _)
LexLess(a, b) ==
    IF Len(a) = 0 THEN Len(b) > 0
    ELSE IF Len(b) = 0 THEN FALSE
    ELSE IF a[1] # b[1] THEN a[1] < b[1]
    ELSE LexLess(Tail(a), Tail(b))

RECURSIVE SortedKeys(_)
SortedKeys(S) ==
    IF S = {} THEN <<>>
    ELSE LET k == CHOOSE k \in S : \A o \in S \ {k} : LexLess(k, o)
         IN  <<k>> \o SortedKeys(S \ {k})

RECURSIVE EncodePairs(_, _)
EncodePairs(m, ks) ==
    IF Len(ks) = 0 THEN <<>>
    ELSE EncodeString(ks[1]) \o EncodeAny(m[ks[1]]) \o EncodePairs(m, Tail(ks))

(* msgpack.Marshal(map[string]any); the order of the pairs is one of the   *)
(* orders Go's map iteration can produce                                    *)
Marshal(m) ==
    <<128 + Cardinality(DOMAIN m)>> \o EncodePairs(m, SortedKeys(DOMAIN m))

(* Decoder.DecodeInterface: the value at pos with the Go type the wire     *)
(* form decides, and the position after it                                  *)
DecodeInterface(b, pos) ==
    LET c == b[pos]
        fits(sz) == pos + sz <= Len(b)
        bad == [err |-> "msgpack: unexpected data", val |-> [t |-> "nil", v |-> 0], next |-> pos]
        ok(t, v, sz) == [err |-> NoErr, val |-> [t |-> t, v |-> v], next |-> pos + 1 + sz]
    IN  IF c <= 127 THEN ok("int8", c, 0)
        ELSE IF c >= 224 THEN ok("int8", c - 256, 0)
        ELSE IF c >= 160 /\ c <= 191
             THEN IF fits(c - 160) THEN ok("string", SubSeq(b, pos + 1, pos + c - 160), c - 160)
                  ELSE bad
        ELSE IF c = 194 THEN ok("bool", FALSE, 0)
        ELSE IF c = 195 THEN ok("bool", TRUE, 0)
        ELSE IF c = 204 /\ fits(1) THEN ok("uint8", UintAt(b, pos + 1, 1), 1)
        ELSE IF c = 205 /\ fits(2) THEN ok("uint16", UintAt(b, pos + 1, 2), 2)
        ELSE IF c = 206 /\ fits(4) THEN ok("uint32", UintAt(b, pos + 1, 4), 4)
        ELSE IF c = 208 /\ fits(1) THEN ok("int8", IntAt(b, pos + 1, 1), 1)
        ELSE IF c = 209 /\ fits(2) THEN ok("int16", IntAt(b, pos + 1, 2), 2)
        ELSE IF c = 210 /\ fits(4) THEN ok("int32", IntAt(b, pos + 1, 4), 4)
        ELSE IF c = 211 /\ fits(8) THEN ok("int64", IntAt(b, pos + 1, 8), 8)
        ELSE bad

RECURSIVE DecodePairs(_, _, _, _)
DecodePairs(b, pos, n, m) ==
    IF n = 0 THEN [err |-> NoErr, m |-> m]
    ELSE IF pos > Len(b) THEN [err |-> "msgpack: unexpected EOF", m |-> <<>>]
    ELSE LET k == DecodeInterface(b, pos) IN
         IF k.err # NoErr \/ k.val.t # "string" \/ k.next > Len(b)
         THEN [err |-> "msgpack: unexpected data", m |-> <<>>]
         ELSE LET v == DecodeInterface(b, k.next) IN
              IF v.err # NoErr THEN [err |-> v.err, m |-> <<>>]
              ELSE DecodePairs(b, v.next, n - 1, (k.val.v :> v.val) @@ m)

(* msgpack.Unmarshal(packed, &map[string]any) *)
Unmarshal(b) ==
    IF Len(b) = 0 THEN [err |-> "msgpack: unexpected EOF", m |-> <<>>]
    ELSE IF b[1] < 128 \/ b[1] > 143 THEN [err |-> "msgpack: unexpected data", m |-> <<>>]
    ELSE DecodePairs(b, 2, b[1] - 128, <<>>)

----------------------------------------------------------------------------
(* The generated codec.  The component's props are                          *)
(*     type Props struct {                                                  *)
(*         Name  string `hx:"n"`                                            *)
(*         Count int    `hx:"c"`                                            *)
(*         ID    int64  `hx:"i,omitempty"`                                  *)
(*         Repo  *Repo  `hx:"-"`                                            *)
(*     }                                                                    *)
(* A props value is a record of the four fields; Repo is "nil" or "repo".   *)

PropFields ==
    << [Name |-> "Name",  Type |-> "string", Tag |-> <<110>>, Lower |-> <<110, 97, 109, 101>>,
        OmitEmpty |-> FALSE, Exclude |-> FALSE],
       [Name |-> "Count", Type |-> "int",    Tag |-> <<99>>,  Lower |-> <<99, 111, 117, 110, 116>>,
        OmitEmpty |-> FALSE, Exclude |-> FALSE],
       [Name |-> "ID",    Type |-> "int64",  Tag |-> <<105>>, Lower |-> <<105, 100>>,
        OmitEmpty |-> TRUE,  Exclude |-> FALSE],
       [Name |-> "Repo",  Type |-> "*Repo",  Tag |-> <<>>,    Lower |-> <<114, 101, 112, 111>>,
        OmitEmpty |-> FALSE, Exclude |-> TRUE] >>

ZeroOf(t) ==
    CASE t = "string" -> <<>>
      [] t \in {"int", "int64"} -> 0
      [] t = "bool" -> FALSE
      [] OTHER -> "nil"

ZeroProps == [Name |-> <<>>, Count |-> 0, ID |-> 0, Repo |-> "nil"]

FieldKey(f) == IF f.Tag # <<>> THEN f.Tag ELSE f.Lower

(* encodeFieldCode: the statement generated for one field, applied to m *)
encodeFieldCode(f, p, m) ==
    IF f.Exclude THEN m
    ELSE IF f.OmitEmpty /\ f.Type \in {"string", "int", "int64", "bool"}
            /\ p[f.Name] = ZeroOf(f.Type)
         THEN m
    ELSE (FieldKey(f) :> [t |-> f.Type, v |-> p[f.Name]]) @@ m

RECURSIVE HXEncodeFrom(_, _, _)
HXEncodeFrom(i, p, m) ==
    IF i > Len(PropFields) THEN m
    ELSE HXEncodeFrom(i + 1, p, encodeFieldCode(PropFields[i], p, m))

HXEncode(p) == HXEncodeFrom(1, p, <<>>)

(* the generated helpers: only float64, int64 and int are converted *)
toInt(val) == IF val.t \in {"float64", "int64", "int"} THEN val.v ELSE 0

toInt64(val) == IF val.t \in {"float64", "int64", "int"} THEN val.v ELSE 0

(* decodeFieldCode: the statement generated for one field, applied to p *)
decodeFieldCode(f, m, p) ==
    IF f.Exclude \/ FieldKey(f) \notin DOMAIN m THEN p
    ELSE LET v == m[FieldKey(f)] IN
         CASE f.Type = "string" -> IF v.t = "string" THEN [p EXCEPT ![f.Name] = v.v] ELSE p
           [] f.Type = "bool"   -> IF v.t = "bool" THEN [p EXCEPT ![f.Name] = v.v] ELSE p
           [] f.Type = "int"    -> [p EXCEPT ![f.Name] = toInt(v)]
           [] f.Type = "int64"  -> [p EXCEPT ![f.Name] = toInt64(v)]
           [] OTHER             -> p

RECURSIVE HXDecodeFrom(_, _, _)
HXDecodeFrom(i, m, p) ==
    IF i > Len(PropFields) THEN p
    ELSE HXDecodeFrom(i + 1, m, decodeFieldCode(PropFields[i], m, p))

HXDecode(m, p) == HXDecodeFrom(1, m, p)

(* Encoder.Encode(v, sensitive); iv is the nonce rand.Read produced *)
Encode(e, v, sens, iv) ==
    LET packed == Marshal(HXEncode(v))
    IN  IF sens THEN encrypt(e, iv, packed) ELSE sign(e, packed)

(* Encoder.Decode(encoded, sensitive, &v): the error and v afterwards *)
Decode(e, encoded, sens, v) ==
    LET r == IF sens THEN decrypt(e, encoded) ELSE verify(e, encoded)
    IN  IF r.err # NoErr THEN [err |-> r.err, v |-> v]
        ELSE LET u == Unmarshal(r.data) IN
             IF u.err # NoErr THEN [err |-> u.err, v |-> v]
             ELSE [err |-> NoErr, v |-> HXDecode(u.m, v)]

----------------------------------------------------------------------------
(* Codec runs: one Encode, optionally one replaced character, one Decode.   *)

MaxNameLen == 1
NumSecrets == 2

(* secrets shorter than KeySize, the 32-byte secret that equals the        *)
(* SHA-256 of the first of them, and a secret longer than KeySize           *)
ShortSecrets == { <<115, b>> : b \in 1..NumSecrets }
LongSecret == [i \in 1..(KeySize + 1) |-> 115]
Secrets == ShortSecrets \cup { Sum256(<<115, 1>>), LongSecret }

Names == UNION { [1..n -> {97}] : n \in 0..MaxNameLen }
Counts == {0, 5}
IDs == {0, 7}
PropsSet == [Name : Names, Count : Counts, ID : IDs, Repo : {"nil", "repo"}]

Nonces == { [i \in 1..NonceSize |-> 9] }

(* the replacements tried for one character: one flipped bit, or a          *)
(* character outside the alphabet                                           *)
FlipBit(c, b) == IF (c \div (2 ^ b)) % 2 = 1 THEN c - 2 ^ b ELSE c + 2 ^ b
Replacements(c) ==
    ({ FlipBit(c, b) : b \in {0, 2, 5} } \cup {Dot, NL, Bad}) \ {c}

NoOut == [err |-> "none", props |-> ZeroProps]

CodecInit ==
    /\ cpc = "start"
    /\ secret \in Secrets
    /\ decSecret = secret
    /\ sensitive \in BOOLEAN
    /\ decSensitive = sensitive
    /\ nonce \in Nonces
    /\ x \in PropsSet
    /\ token = <<>>
    /\ tampered = FALSE
    /\ out = NoOut

(* enc, err := NewEncoder(secret); token, _ := enc.Encode(x, sensitive) *)
CodecEncode ==
    /\ cpc = "start"
    /\ LET e == NewEncoder(secret) IN
       IF e.err # NoErr
       THEN /\ cpc' = "nokey"
            /\ out' = [err |-> e.err, props |-> ZeroProps]
            /\ UNCHANGED token
       ELSE /\ cpc' = "encoded"
            /\ token' = Encode(e, x, sensitive, nonce)
            /\ UNCHANGED out
    /\ UNCHANGED <<secret, decSecret, sensitive, decSensitive, nonce, x, tampered>>

(* one character of the token is replaced in transit *)
CodecTamper ==
    /\ cpc = "encoded"
    /\ ~tampered
    /\ \E i \in 1..Len(token) : \E c \in Replacements(token[i]) :
          token' = [token EXCEPT ![i] = c]
    /\ tampered' = TRUE
    /\ UNCHANGED <<cpc, secret, decSecret, sensitive, decSensitive, nonce, x, out>>

(* dec, err := NewEncoder(k); var v Props; err = dec.Decode(token, m, &v): *)
(* with another key, or in the other mode, or on a changed token            *)
CodecDecode ==
    /\ cpc = "encoded"
    /\ \E k \in Secrets, m \in BOOLEAN :
          /\ tampered => k = secret /\ m = sensitive
          /\ m # sensitive => k = secret
          /\ decSecret' = k
          /\ decSensitive' = m
          /\ LET e == NewEncoder(k) IN
             IF e.err # NoErr
             THEN /\ cpc' = "nokey"
                  /\ out' = [err |-> e.err, props |-> ZeroProps]
             ELSE /\ cpc' = "decoded"
                  /\ LET r == Decode(e, token, m, ZeroProps)
                     IN  out' = [err |-> r.err, props |-> r.v]
    /\ UNCHANGED <<secret, sensitive, nonce, x, token, tampered>>

----------------------------------------------------------------------------
(* Properties of the codec runs *)

Decoded == cpc = "decoded"

(* C1: for both security modes, changing any single character of a valid   *)
(* token makes Decode fail, with SignatureInvalid in signed mode and        *)
(* DecryptFailed in encrypted mode; Decode never succeeds on it.            *)
C1_TamperedTokenRejected ==
    Decoded /\ tampered =>
        Is(out.err, IF sensitive THEN ErrDecryptFailed ELSE ErrSignatureInvalid)

(* b is the key NewEncoder derives from the shorter secret a *)
DerivedFrom(a, b) == Len(a) < KeySize /\ b = Sum256(a)

(* C2 as stated: for any two distinct keys A and B, a token encoded under  *)
(* A never decodes successfully under B, in either mode.                    *)
C2_DistinctKeysIsolated ==
    Decoded /\ ~tampered /\ decSecret # secret => out.err # NoErr

(* C2 amended: the same, for distinct keys neither of which is the         *)
(* SHA-256 of the other (the key NewEncoder derives from a short secret).   *)
C2_UnrelatedKeysIsolated ==
    Decoded /\ ~tampered /\ decSecret # secret
        /\ ~DerivedFrom(secret, decSecret) /\ ~DerivedFrom(decSecret, secret)
    => out.err # NoErr

C2_Witness ==
    /\ Decoded /\ ~tampered /\ decSecret # secret
    /\ ~DerivedFrom(secret, decSecret) /\ ~DerivedFrom(decSecret, secret)
    /\ out.err # NoErr

(* C3: for every props value x and both modes, decoding Encode(x) with the *)
(* same encoder and mode succeeds and equals x on every field that is not   *)
(* excluded, and every excluded field is zero-valued after decode.          *)
C3_RoundTrip ==
    Decoded /\ ~tampered /\ decSecret = secret /\ decSensitive = sensitive =>
        /\ out.err = NoErr
        /\ \A i \in 1..Len(PropFields) :
              IF PropFields[i].Exclude
              THEN out.props[PropFields[i].Name] = ZeroOf(PropFields[i].Type)
              ELSE out.props[PropFields[i].Name] = x[PropFields[i].Name]

----------------------------------------------------------------------------
(* http.ResponseWriter.  hdr is the header map, sent the headers that went  *)
(* out with the status line, status 0 means WriteHeader has not run.        *)

(* what is written to the body: a line of text, or the component's          *)
(* template rendered for props (the counter template shows Count)           *)
(* toasts are the out-of-band toast fragments that follow it               *)
NoBody == [kind |-> "none", text |-> "", count |-> 0, toasts |-> <<>>]
Text(msg) == [kind |-> "text", text |-> msg, count |-> 0, toasts |-> <<>>]
Template(p) == [kind |-> "html", text |-> "", count |-> p.Count, toasts |-> <<>>]

NewWriter == [hdr |-> <<>>, sent |-> <<>>, status |-> 0, body |-> NoBody]

HeaderSet(rw, k, v) == [rw EXCEPT !.hdr = (k :> v) @@ rw.hdr]

(* only the first WriteHeader counts; it fixes the headers that are sent *)
WriteHeader(rw, code) ==
    IF rw.status # 0 THEN rw ELSE [rw EXCEPT !.status = code, !.sent = rw.hdr]

Write(rw, data) == [WriteHeader(rw, 200) EXCEPT !.body = data]

(* http.Error *)
HttpError(rw, msg, code) ==
    Write(WriteHeader(HeaderSet(HeaderSet(rw, "Content-Type", "text/plain; charset=utf-8"),
                                "X-Content-Type-Options", "nosniff"), code), Text(msg))

(* http.NotFound *)
HttpNotFound(rw) == HttpError(rw, "404 page not found", 404)

(* the server's implicit WriteHeader(200) when the handler returns *)
Finish(rw) == WriteHeader(rw, 200)

Ev(e, a) == [ev |-> e, arg |-> a]

----------------------------------------------------------------------------
(* Errors and the default error callback *)

IsNotFound(err) == Is(err, ErrNotFound)

(* a classification that also takes a malformed token for a decryption error *)
IsDecryptionOrFormatError(err) ==
    Is(err, ErrDecryptFailed) \/ Is(err, ErrSignatureInvalid) \/ Is(err, ErrInvalidFormat)

IsDecryptionError(err) == Is(err, ErrDecryptFailed) \/ Is(err, ErrSignatureInvalid)

(* wrapEncodingError / WrapDecodeError: the sentinels of package encoding  *)
(* become those of package hxcmp, every other error passes through          *)
wrapEncodingError(err) ==
    CASE err = "encoding: invalid format" -> ErrInvalidFormat
      [] err = "encoding: signature invalid" -> ErrSignatureInvalid
      [] err = "encoding: decrypt failed" -> ErrDecryptFailed
      [] OTHER -> err

(* the default OnError installed by NewRegistry *)
DefaultOnError(rw, err) ==
    IF IsNotFound(err) THEN HttpError(rw, "Not found", 404)
    ELSE IF IsDecryptionError(err) THEN HttpError(rw, "Bad request", 400)
    ELSE HttpError(rw, "Internal error", 500)

(* an OnError installed by the application: answers 422 with its own body *)
CustomOnError(rw, err) == HttpError(rw, "custom", 422)

(* reg.OnError(w, r, err) *)
OnError(cb, rw, err) ==
    IF cb = "default" THEN DefaultOnError(rw, err) ELSE CustomOnError(rw, err)

----------------------------------------------------------------------------
(* Components.  "counter" has generated code (it is an HXComponent);       *)
(* "vault" and "proto" are dispatched by reflection, "vault" with a         *)
(* hand-written props codec and "proto" with props that are not Decodable;  *)
(* "twin" is the counter component without its generated dispatcher.        *)

CompNames == {"counter", "vault", "proto", "twin"}

Generated(c) == c = "counter"
IsSensitive(c) == c = "vault"
IsDecodable(c) == c # "proto"

(* Component.Prefix(): "twin" was built with the name and at the call site *)
(* of "counter", so New gave it the same prefix                           *)
Prefix(c) == "/_c/" \o (IF c = "twin" THEN "counter" ELSE c)

(* Component.Actions(): name -> [method, returns]; returns is FALSE for a  *)
(* handler func without a result                                            *)
Actions(c) ==
    IF c = "vault"
    THEN ("increment" :> [method |-> "", returns |-> TRUE])
         @@ ("void" :> [method |-> "POST", returns |-> FALSE])
    ELSE ("increment" :> [method |-> "POST", returns |-> TRUE])
         @@ ("raw" :> [method |-> "GET", returns |-> TRUE])

(* the keys: the registry's, and one of another deployment *)
RegEncoder == NewEncoder(<<115, 1>>)
ForeignEncoder == NewEncoder(<<115, 2>>)

(* props the server has put into URLs (Component.buildURL) *)
IssuedProps == [Name |-> <<97>>, Count |-> 5, ID |-> 7, Repo |-> "nil"]
IssuedNonce == [i \in 1..NonceSize |-> 9]
IssuedToken(c) == Encode(RegEncoder, IssuedProps, IsSensitive(c), IssuedNonce)

(* props the server never issued *)
ForgedProps == [Name |-> <<97>>, Count |-> 0, ID |-> 9, Repo |-> "nil"]

(* the URLs clients address: one per registered prefix *)
Targets == {"counter", "vault", "proto"}

(* what a client can put into ?p= for component c: nothing, the issued     *)
(* token, the token with its first or last character changed, a token       *)
(* made with another key, one made in the other mode, garbage               *)
RequestTokens(c) ==
    LET t == IssuedToken(c) IN
    { <<>>, t,
      [t EXCEPT ![1] = FlipBit(t[1], 5)],
      [t EXCEPT ![Len(t)] = FlipBit(t[Len(t)], 0)],
      Encode(ForeignEncoder, ForgedProps, IsSensitive(c), IssuedNonce),
      Encode(RegEncoder, IssuedProps, ~IsSensitive(c), IssuedNonce),
      <<Bad, Bad>> }

Methods == {"GET", "HEAD", "POST"}
Paths == {"", "increment", "void", "raw", "nope"}

Requests ==
    UNION { [method : Methods, hx : {"true", ""}, target : {c}, path : Paths,
             token : RequestTokens(c)] : c \in Targets }

NoReq == [method |-> "", hx |-> "", target |-> "", path |-> "", token |-> <<>>]

----------------------------------------------------------------------------
(* Result[P] *)

OK(p) == [props |-> p, err |-> NoErr, redirect |-> "", skip |-> FALSE,
          status |-> 0, headers |-> <<>>, trigger |-> "", callback |-> "",
          flashes |-> <<>>]
Err(p, e) == [OK(p) EXCEPT !.err = e]
Skip == [OK(ZeroProps) EXCEPT !.skip = TRUE]
Redirect(url) == [OK(ZeroProps) EXCEPT !.redirect = url]

(* r.Status(201).Header("X-Custom", "v").Trigger("saved") *)
Decorated(r) ==
    [r EXCEPT !.status = 201, !.headers = ("X-Custom" :> "v"), !.trigger = "saved"]

(* r.Callback(Callback{URL: "/cb"}) *)
WithCallback(r) == [r EXCEPT !.callback = "/cb"]

(* r.Flash("success", "a").Flash("info", "b") *)
Flashed(r) ==
    [r EXCEPT !.flashes = @ \o <<[Level |-> "success", Message |-> "a"],
                                  [Level |-> "info", Message |-> "b"]>>]

NoResult == [OK(ZeroProps) EXCEPT !.err = "none"]

(* what Hydrate can return, and what it does to the props when it succeeds *)
HydrateErrors == {NoErr, ErrNotFound, "db down"}
Hydrated(p) == [p EXCEPT !.Repo = "repo"]

(* what an action handler can return for the props it was given; the one   *)
(* that succeeds does props.Count++ and returns OK(props)                   *)
HandlerErrors ==
    {ErrNotFound, ErrInvalidFormat, ErrSignatureInvalid, ErrDecryptFailed, "boom"}
Results(p) ==
    LET plain == {OK([p EXCEPT !.Count = @ + 1]), Skip, Redirect("/next")}
                     \cup { Err(p, e) : e \in HandlerErrors }
        ok == OK([p EXCEPT !.Count = @ + 1])
    IN  plain \cup { Decorated(r) : r \in plain }
              \cup { WithCallback(ok), WithCallback([ok EXCEPT !.trigger = "saved"]),
                     Flashed(ok) }

----------------------------------------------------------------------------
(* Registry *)

DispatchInit ==
    /\ components = <<>>
    /\ added = <<>>
    /\ onError = "default"
    /\ panicked = FALSE
    /\ pc = "idle"
    /\ req = NoReq
    /\ w = NewWriter
    /\ props = ZeroProps
    /\ result = NoResult
    /\ log = <<>>

(* a registration that stores the component whatever the map holds *)
AddOverwriting(c) ==
    /\ ~panicked
    /\ components' = (Prefix(c) :> c) @@ components
    /\ UNCHANGED <<panicked, onError, pc, req, w, props, result, log>>

(* Registry.Add(c) -> registerComponent / registerComponentReflection:    *)
(* panic("hxcmp: prefix collision for ...") when the prefix is             *)
(* taken, else reg.components[prefix] = c and the mux handles the prefix    *)
AddComponent(c) ==
    /\ ~panicked
    /\ IF Prefix(c) \in DOMAIN components
       THEN panicked' = TRUE /\ UNCHANGED components
       ELSE components' = (Prefix(c) :> c) @@ components /\ UNCHANGED panicked
    /\ UNCHANGED <<onError, pc, req, w, props, result, log>>

Add == \E c \in CompNames : AddComponent(c) /\ UNCHANGED added

(* what an application may hand to Add: the components above, and "bare",  *)
(* a struct that embeds *Component[P] but has neither Hydrate nor Render    *)
Registrable == CompNames \cup {"bare"}
Implements(c, method) == c # "bare"

(* Add with the call recorded *)
AddRecorded == \E c \in Registrable : AddComponent(c) /\ added' = Append(added, c)

(* the application assigns its own callback to Registry.OnError *)
SetOnError ==
    /\ ~panicked
    /\ onError = "default"
    /\ onError' = "custom"
    /\ UNCHANGED <<components, added, panicked, pc, req, w, props, result, log>>

(* a request arrives at Registry.Handler() *)
Receive ==
    /\ ~panicked
    /\ pc = "idle"
    /\ req' \in Requests
    /\ pc' = "handler"
    /\ UNCHANGED <<components, added, onError, panicked, w, props, result, log>>

(* the handler func has returned and the response is complete *)
Complete ==
    /\ pc = "done"
    /\ pc' = "idle"
    /\ req' = NoReq
    /\ w' = NewWriter
    /\ props' = ZeroProps
    /\ result' = NoResult
    /\ log' = <<>>
    /\ UNCHANGED <<components, added, onError, panicked>>

(* the component the mux routes the request's URL to *)
Serving == components[Prefix(req.target)]

(* a guard that lets every request through *)
CSRFNeverBlocks(r) == FALSE

(* the guard of Registry.Handler *)
CSRFBlocked(r) == r.method # "GET" /\ r.method # "HEAD" /\ r.hx # "true"

(* Registry.Handler: the guard, then reg.mux.ServeHTTP *)
Handler ==
    /\ pc = "handler"
    /\ IF CSRFBlocked(req)
       THEN /\ w' = Finish(HttpError(w, "Forbidden: HTMX request required", 403))
            /\ log' = Append(log, Ev("forbidden", 403))
            /\ pc' = "done"
       ELSE IF Prefix(req.target) \notin DOMAIN components
       THEN /\ w' = Finish(HttpNotFound(w))
            /\ log' = Append(log, Ev("mux404", 404))
            /\ pc' = "done"
       ELSE /\ log' = Append(log, Ev("serve", IF Generated(Serving) THEN "HXServeHTTP"
                                               ELSE "handleRequest"))
            /\ pc' = "decode"
            /\ UNCHANGED w
    /\ UNCHANGED <<components, added, onError, panicked, req, props, result>>

----------------------------------------------------------------------------
(* Generated dispatcher: HXServeHTTP, serveRender, serve<Handler>,          *)
(* handleResult                                                             *)

Served(gen) == Prefix(Serving) \in DOMAIN components /\ Generated(Serving) = gen

GenDecode ==
    /\ pc = "decode" /\ Served(TRUE)
    /\ IF req.token # <<>>
       THEN LET r == Decode(RegEncoder, req.token, IsSensitive(Serving), ZeroProps) IN
            IF r.err # NoErr
            THEN /\ w' = Finish(HttpError(w, "Invalid parameters", 400))
                 /\ log' = log \o <<Ev("decode", r.err), Ev("failed", r.err),
                                    Ev("httperror", 400)>>
                 /\ pc' = "done"
                 /\ UNCHANGED props
            ELSE /\ props' = r.v
                 /\ log' = Append(log, Ev("decode", NoErr))
                 /\ pc' = "hydrate"
                 /\ UNCHANGED w
       ELSE pc' = "hydrate" /\ UNCHANGED <<w, props, log>>
    /\ UNCHANGED <<components, added, onError, panicked, req, result>>

(* a dispatcher that goes on to routing without calling Hydrate *)
GenHydrateSkipped ==
    /\ pc = "hydrate" /\ Served(TRUE)
    /\ pc' = "route"
    /\ UNCHANGED <<components, added, onError, panicked, req, w, props, result, log>>

GenHydrate ==
    /\ pc = "hydrate" /\ Served(TRUE)
    /\ \E e \in HydrateErrors :
          IF e # NoErr
          THEN /\ w' = Finish(HttpError(w, "Hydration failed", 500))
               /\ log' = log \o <<Ev("hydrate", props), Ev("failed", e), Ev("httperror", 500)>>
               /\ pc' = "done"
               /\ UNCHANGED props
          ELSE /\ props' = Hydrated(props)
               /\ log' = Append(log, Ev("hydrate", props))
               /\ pc' = "route"
               /\ UNCHANGED w
    /\ UNCHANGED <<components, added, onError, panicked, req, result>>

(* c.Render(ctx, p), the Content-Type header, tmpl.Render(ctx, w) *)
RenderTo(rw, p) ==
    [w |-> Write(HeaderSet(rw, "Content-Type", "text/html; charset=utf-8"), Template(p)),
     evs |-> <<Ev("render", p)>>]

(* Generator.findActions: the ActionInfo of every c.Action("name", ...)     *)
(* call in the component's source; Method is always "POST", a chained       *)
(* .Method(...) is not read                                                 *)
findActions(c) == [a \in DOMAIN Actions(c) |-> [Name |-> a, Method |-> "POST"]]

(* the method the template writes for an ActionInfo *)
TemplateMethod(ai) == IF ai.Method = "" THEN "POST" ELSE ai.Method

(* the generated action builder: &hxcmp.Action{URL, Method, Swap} *)
ActionBuilderOf(c, a) ==
    [URL |-> <<Prefix(c), a>>, Method |-> TemplateMethod(findActions(c)[a])]

(* the case of the switch on r.Method + " " + path that matches *)
GenCase(c, method, path) ==
    IF method = "GET" /\ path = "" THEN "render"
    ELSE IF \E a \in DOMAIN findActions(c) :
               path = a /\ method = TemplateMethod(findActions(c)[a])
         THEN "action"
    ELSE "default"

GenRoute ==
    /\ pc = "route" /\ Served(TRUE)
    /\ LET k == GenCase(Serving, req.method, req.path) IN
       IF k = "render"
       THEN LET r == RenderTo(w, props) IN
            w' = Finish(r.w) /\ log' = log \o r.evs /\ pc' = "done"
       ELSE IF k = "action"
       THEN pc' = "invoke" /\ UNCHANGED <<w, log>>
       ELSE /\ w' = Finish(HttpNotFound(w))
            /\ log' = Append(log, Ev("notfound", 404))
            /\ pc' = "done"
    /\ UNCHANGED <<components, added, onError, panicked, req, props, result>>

(* result := c.handler(r.Context(), props, r) *)
GenInvoke ==
    /\ pc = "invoke" /\ Served(TRUE)
    /\ result' \in Results(props)
    /\ log' = Append(log, Ev("handler", props))
    /\ pc' = "fold"
    /\ UNCHANGED <<components, added, onError, panicked, req, w, props>>

(* Callback.TriggerJSON: json.Marshal of {"hxcmp:callback": {"url": URL}}, *)
(* token by token                                                           *)
TriggerJSON(url) == <<"{", "hxcmp:callback", ":", "{", "url", ":", url, "}", "}">>

(* strings.Join *)
RECURSIVE Join(_, _)
Join(parts, sep) ==
    IF parts = <<>> THEN <<>>
    ELSE IF Len(parts) = 1 THEN parts[1]
    ELSE parts[1] \o sep \o Join(Tail(parts), sep)

(* the triggers handleResult collects from a result *)
TriggersOf(res) ==
    (IF res.callback # "" THEN <<TriggerJSON(res.callback)>> ELSE <<>>)
    \o (IF res.trigger # "" THEN << <<res.trigger>> >> ELSE <<>>)

(* handleResult: the writer afterwards and what was done, in order *)
handleResult(rw, res) ==
    IF res.err # NoErr
    THEN [w |-> HttpError(rw, "Error", 500),
          evs |-> <<Ev("failed", res.err), Ev("httperror", 500)>>]
    ELSE LET w1 == IF res.status # 0 THEN WriteHeader(rw, res.status) ELSE rw
             e1 == IF res.status # 0 THEN <<Ev("status", res.status)>> ELSE <<>>
             w2 == [w1 EXCEPT !.hdr = res.headers @@ w1.hdr]
             e2 == IF DOMAIN res.headers # {} THEN e1 \o <<Ev("headers", res.headers)>> ELSE e1
         IN  IF res.redirect # ""
             THEN [w |-> HeaderSet(w2, "HX-Redirect", res.redirect),
                   evs |-> e2 \o <<Ev("redirect", res.redirect)>>]
             ELSE LET tv == Join(TriggersOf(res), <<", ">>)
                      w3 == IF TriggersOf(res) # <<>> THEN HeaderSet(w2, "HX-Trigger", tv)
                            ELSE w2
                      e3 == IF TriggersOf(res) # <<>> THEN e2 \o <<Ev("trigger", tv)>>
                            ELSE e2
                  IN  IF res.skip THEN [w |-> w3, evs |-> e3 \o <<Ev("skip", 0)>>]
                      ELSE LET r == RenderTo(w3, res.props)
                           IN  [w |-> r.w, evs |-> e3 \o r.evs]

GenFold ==
    /\ pc = "fold" /\ Served(TRUE)
    /\ LET r == handleResult(w, result) IN
       w' = Finish(r.w) /\ log' = log \o r.evs
    /\ pc' = "done"
    /\ UNCHANGED <<components, added, onError, panicked, req, props, result>>

----------------------------------------------------------------------------
(* Reflective dispatcher: Registry.handleRequest, reflectRender,            *)
(* reflectInvokeHandler, processReflectResult                               *)

(* reg.OnError(w, r, err): the writer afterwards and what was done *)
CallOnError(rw, err) ==
    [w |-> OnError(onError, rw, err),
     evs |-> <<Ev("failed", err), Ev("onerror", [cb |-> onError, err |-> err])>>]

ReflDecode ==
    /\ pc = "decode" /\ Served(FALSE)
    /\ IF req.token # <<>> /\ IsDecodable(Serving)
       THEN LET r == Decode(RegEncoder, req.token, IsSensitive(Serving), ZeroProps) IN
            IF r.err # NoErr
            THEN LET o == CallOnError(w, wrapEncodingError(r.err)) IN
                 /\ w' = Finish(o.w)
                 /\ log' = log \o <<Ev("decode", r.err)>> \o o.evs
                 /\ pc' = "done"
                 /\ UNCHANGED props
            ELSE /\ props' = r.v
                 /\ log' = Append(log, Ev("decode", NoErr))
                 /\ pc' = "hydrate"
                 /\ UNCHANGED w
       ELSE pc' = "hydrate" /\ UNCHANGED <<w, props, log>>
    /\ UNCHANGED <<components, added, onError, panicked, req, result>>

ReflHydrate ==
    /\ pc = "hydrate" /\ Served(FALSE)
    /\ \E e \in HydrateErrors :
          IF e # NoErr
          THEN LET o == CallOnError(w, e) IN
               /\ w' = Finish(o.w)
               /\ log' = log \o <<Ev("hydrate", props)>> \o o.evs
               /\ pc' = "done"
               /\ UNCHANGED props
          ELSE /\ props' = Hydrated(props)
               /\ log' = Append(log, Ev("hydrate", props))
               /\ pc' = "route"
               /\ UNCHANGED w
    /\ UNCHANGED <<components, added, onError, panicked, req, result>>

(* the action the loop over Actions() finds for the path and the method *)
ReflMatch(c, method, path) ==
    { a \in DOMAIN Actions(c) :
        /\ path = a
        /\ method = (IF Actions(c)[a].method = "" THEN "POST" ELSE Actions(c)[a].method) }

ReflRoute ==
    /\ pc = "route" /\ Served(FALSE)
    /\ IF req.method = "GET" /\ req.path = ""
       THEN LET r == RenderTo(w, props) IN
            w' = Finish(r.w) /\ log' = log \o r.evs /\ pc' = "done"
       ELSE IF ReflMatch(Serving, req.method, req.path) # {}
       THEN pc' = "invoke" /\ UNCHANGED <<w, log>>
       ELSE /\ w' = Finish(HttpNotFound(w))
            /\ log' = Append(log, Ev("notfound", 404))
            /\ pc' = "done"
    /\ UNCHANGED <<components, added, onError, panicked, req, props, result>>

(* reflectInvokeHandler: a handler without results ends the request *)
ReflInvoke ==
    /\ pc = "invoke" /\ Served(FALSE)
    /\ log' = Append(log, Ev("handler", props))
    /\ IF Actions(Serving)[req.path].returns
       THEN result' \in Results(props) /\ pc' = "fold" /\ UNCHANGED w
       ELSE w' = Finish(w) /\ pc' = "done" /\ UNCHANGED result
    /\ UNCHANGED <<components, added, onError, panicked, req, props>>

(* processReflectResult: the writer afterwards and what was done, in order *)
processReflectResult(rw, res) ==
    IF res.err # NoErr THEN CallOnError(rw, res.err)
    ELSE IF res.redirect # ""
    THEN [w |-> HeaderSet(rw, "HX-Redirect", res.redirect),
          evs |-> <<Ev("redirect", res.redirect)>>]
    ELSE IF res.skip THEN [w |-> rw, evs |-> <<Ev("skip", 0)>>]
    ELSE RenderTo(rw, res.props)

ReflFold ==
    /\ pc = "fold" /\ Served(FALSE)
    /\ LET r == processReflectResult(w, result) IN
       w' = Finish(r.w) /\ log' = log \o r.evs
    /\ pc' = "done"
    /\ UNCHANGED <<components, added, onError, panicked, req, props, result>>

----------------------------------------------------------------------------
(* The two dispatchers as functions of what a request meets: the           *)
(* component c, the request r, the error herr Hydrate returns, the result   *)
(* res the handler returns and the registry's callback cb.  Each gives the  *)
(* response the client receives.                                            *)

Response(rw) == [status |-> rw.status, headers |-> rw.sent, body |-> rw.body]

(* HXServeHTTP *)
GenServe(c, r, herr, res) ==
    LET d == IF r.token # <<>>
             THEN Decode(RegEncoder, r.token, IsSensitive(c), ZeroProps)
             ELSE [err |-> NoErr, v |-> ZeroProps]
        k == GenCase(c, r.method, r.path)
    IN  IF d.err # NoErr THEN Finish(HttpError(NewWriter, "Invalid parameters", 400))
        ELSE IF herr # NoErr THEN Finish(HttpError(NewWriter, "Hydration failed", 500))
        ELSE IF k = "render" THEN Finish(RenderTo(NewWriter, Hydrated(d.v)).w)
        ELSE IF k = "action" THEN Finish(handleResult(NewWriter, res).w)
        ELSE Finish(HttpNotFound(NewWriter))

(* Registry.handleRequest *)
ReflServe(c, r, herr, res, cb) ==
    LET d == IF r.token # <<>> /\ IsDecodable(c)
             THEN Decode(RegEncoder, r.token, IsSensitive(c), ZeroProps)
             ELSE [err |-> NoErr, v |-> ZeroProps]
    IN  IF d.err # NoErr THEN Finish(OnError(cb, NewWriter, wrapEncodingError(d.err)))
        ELSE IF herr # NoErr THEN Finish(OnError(cb, NewWriter, herr))
        ELSE IF r.method = "GET" /\ r.path = ""
        THEN Finish(RenderTo(NewWriter, Hydrated(d.v)).w)
        ELSE IF ReflMatch(c, r.method, r.path) = {} THEN Finish(HttpNotFound(NewWriter))
        ELSE IF ~Actions(c)[r.path].returns THEN Finish(NewWriter)
        ELSE IF res.err # NoErr THEN Finish(OnError(cb, NewWriter, res.err))
        ELSE Finish(processReflectResult(NewWriter, res).w)

----------------------------------------------------------------------------
(* Component construction: New and componentHash.  A call site is the     *)
(* place in the source New is called from: runtime.Caller reports it as a   *)
(* file path and a line.                                                    *)

MaxBuilt == 2

(* component names and file names as bytes *)
BuiltNames == {<<99, 116, 114>>, <<118, 108, 116>>}
CallSites ==
    [dir : {"a", "b"}, file : {<<99, 46, 103, 111>>, <<118, 46, 103, 111>>},
     line : {12, 40}]

(* fmt's %d *)
RECURSIVE Decimal(_)
Decimal(n) == IF n < 10 THEN <<48 + n>> ELSE Decimal(n \div 10) \o <<48 + (n % 10)>>

(* hex.EncodeToString *)
RECURSIVE HexEncode(_)
HexEncode(d) ==
    IF d = <<>> THEN <<>>
    ELSE <<Head(d) \div 16, Head(d) % 16>> \o HexEncode(Tail(d))

(* componentHash: runtime.Caller's file is dir/file, filepath.Base keeps   *)
(* the file                                                                 *)
componentHash(name, site) ==
    LET input == site.file \o <<58>> \o Decimal(site.line) \o <<58>> \o name
    IN  HexEncode(SubSeq(Sum256(input), 1, 4))

(* New: "/_c/" + name + "-" + componentHash(name, 1) *)
New(name, site) ==
    [name |-> name, prefix |-> <<47, 95, 99, 47>> \o name \o <<45>> \o componentHash(name, site),
     sensitive |-> FALSE]

NoneBuilt == built = <<>> /\ defs = <<>> /\ actions = <<>>

(* the application constructs a component *)
Construct ==
    /\ Len(built) < MaxBuilt
    /\ \E n \in BuiltNames, s \in CallSites :
          built' = Append(built, [site |-> s, c |-> New(n, s), issued |-> {}])
    /\ UNCHANGED <<defs, actions>>

(* c.Sensitive(): c.sensitive = true, on a component built earlier *)
Sensitive ==
    /\ \E i \in 1..Len(built) :
        built' = [built EXCEPT ![i].c.sensitive = TRUE]
    /\ UNCHANGED <<defs, actions>>

(* c.buildURL(action, props): the token is encoded in mode c.sensitive;    *)
(* issued keeps the modes of the tokens the component has put into URLs     *)
buildURL ==
    /\ \E i \in 1..Len(built) :
        built' = [built EXCEPT ![i].issued = @ \cup {built[i].c.sensitive}]
    /\ UNCHANGED <<defs, actions>>

----------------------------------------------------------------------------
(* Action registration on one component: Component.Action and              *)
(* ActionBuilder.Method                                                     *)

MaxDefs == 3

ActionNames == {"edit", "raw"}
HandlerFuncs == {"h1", "h2"}
OtherMethods == {"GET", "DELETE"}

(* a registration that leaves an existing entry in place *)
ActionKeepFirst(name, handler) ==
    /\ defs' = Append(defs, [name |-> name, method |-> "POST", handler |-> handler])
    /\ actions' = IF name \in DOMAIN actions THEN actions
                  ELSE (name :> (Len(defs) + 1)) @@ actions

(* c.Action(name, handler): c.actions[name] = &actionDef{name, "POST",     *)
(* handler}; the returned builder points at the new actionDef               *)
Action(name, handler) ==
    /\ defs' = Append(defs, [name |-> name, method |-> "POST", handler |-> handler])
    /\ actions' = (name :> (Len(defs) + 1)) @@ actions

(* ab.Method(m) on the builder of the b-th registration: ab.action.method = m *)
Method(b, m) ==
    /\ defs' = [defs EXCEPT ![b].method = m]
    /\ UNCHANGED actions

RegisterAction ==
    /\ Len(defs) < MaxDefs
    /\ \E n \in ActionNames, h \in HandlerFuncs : Action(n, h)
    /\ UNCHANGED built

SetMethod ==
    /\ \E b \in 1..Len(defs), m \in OtherMethods : Method(b, m)
    /\ UNCHANGED built

----------------------------------------------------------------------------
(* Concurrent registration: Registry.Add and Get under reg.mu *)

MaxArgs == 2

LockIdle ==
    /\ mu = [w |-> "", r |-> {}]
    /\ mux = {}
    /\ call = [p \in {"add1", "add2", "get"} |-> [pc |-> "idle", args |-> <<>>, i |-> 0]]
    /\ seen = [comps |-> {}, routes |-> {}]

(* an Add that enters without taking reg.mu *)
LockUnguarded(p) ==
    /\ call[p].pc = "idle"
    /\ \E n \in 1..MaxArgs : \E cs \in [1..n -> CompNames] :
           call' = [call EXCEPT ![p] = [pc |-> "locked", args |-> cs, i |-> 1]]
    /\ UNCHANGED <<mu, mux, seen, dvars>>

(* reg.Add(components...): reg.mu.Lock(), granted when nobody holds the     *)
(* lock for writing or reading; defer reg.mu.Unlock()                       *)
Lock(p) ==
    /\ call[p].pc = "idle"
    /\ mu.w = "" /\ mu.r = {}
    /\ \E n \in 1..MaxArgs : \E cs \in [1..n -> CompNames] :
           call' = [call EXCEPT ![p] = [pc |-> "locked", args |-> cs, i |-> 1]]
    /\ mu' = [mu EXCEPT !.w = p]
    /\ UNCHANGED <<mux, seen, dvars>>

(* the loop body, first half: the collision check, then either the panic    *)
(* (the deferred Unlock runs as the goroutine unwinds) or                   *)
(* reg.components[prefix] = comp                                            *)
registerComponent(p) ==
    /\ call[p].pc = "locked"
    /\ call[p].i <= Len(call[p].args)
    /\ LET c == call[p].args[call[p].i] IN
       IF Prefix(c) \in DOMAIN components
       THEN /\ call' = [call EXCEPT ![p].pc = "panicked"]
            /\ mu' = [mu EXCEPT !.w = IF mu.w = p THEN "" ELSE mu.w]
            /\ UNCHANGED components
       ELSE /\ components' = (Prefix(c) :> c) @@ components
            /\ call' = [call EXCEPT ![p].pc = "stored"]
            /\ UNCHANGED mu
    /\ UNCHANGED <<mux, seen, added, onError, panicked, pc, req, w, props, result, log>>

(* the loop body, second half: reg.mux.HandleFunc(prefix + "/", ...), then  *)
(* on to the next component of the call                                     *)
HandleFunc(p) ==
    /\ call[p].pc = "stored"
    /\ mux' = mux \cup {Prefix(call[p].args[call[p].i]) \o "/"}
    /\ call' = [call EXCEPT ![p].pc = "locked", ![p].i = @ + 1]
    /\ UNCHANGED <<mu, seen, dvars>>

(* Add returns after its last component: the deferred reg.mu.Unlock()       *)
Unlock(p) ==
    /\ call[p].pc = "locked"
    /\ call[p].i > Len(call[p].args)
    /\ call' = [call EXCEPT ![p].pc = "returned"]
    /\ mu' = [mu EXCEPT !.w = IF mu.w = p THEN "" ELSE mu.w]
    /\ UNCHANGED <<mux, seen, dvars>>

(* Get[T](reg): reg.mu.RLock(), granted when nobody holds the write lock    *)
RLock(p) ==
    /\ call[p].pc = "idle"
    /\ mu.w = ""
    /\ mu' = [mu EXCEPT !.r = @ \cup {p}]
    /\ call' = [call EXCEPT ![p].pc = "rlocked"]
    /\ UNCHANGED <<mux, seen, dvars>>

(* Get ranges over reg.components and returns (or panics); the deferred     *)
(* RUnlock runs either way                                                  *)
Get(p) ==
    /\ call[p].pc = "rlocked"
    /\ seen' = [comps |-> DOMAIN components, routes |-> mux]
    /\ mu' = [mu EXCEPT !.r = @ \ {p}]
    /\ call' = [call EXCEPT ![p].pc = "returned"]
    /\ UNCHANGED <<mux, dvars>>

----------------------------------------------------------------------------
(* Specifications *)

CodecIdle == cpc = "start" /\ secret = <<>> /\ decSecret = <<>> /\ sensitive = FALSE
             /\ decSensitive = FALSE
             /\ nonce = <<>> /\ x = ZeroProps /\ token = <<>> /\ tampered = FALSE
             /\ out = NoOut

Init == DispatchInit /\ CodecIdle /\ NoneBuilt /\ LockIdle

Next ==
    \/ Add /\ UNCHANGED <<cvars, nvars, lvars>>
    \/ SetOnError /\ UNCHANGED <<cvars, nvars, lvars>>
    \/ Receive /\ UNCHANGED <<cvars, nvars, lvars>>
    \/ Complete /\ UNCHANGED <<cvars, nvars, lvars>>
    \/ Handler /\ UNCHANGED <<cvars, nvars, lvars>>
    \/ GenDecode /\ UNCHANGED <<cvars, nvars, lvars>>
    \/ GenHydrate /\ UNCHANGED <<cvars, nvars, lvars>>
    \/ GenRoute /\ UNCHANGED <<cvars, nvars, lvars>>
    \/ GenInvoke /\ UNCHANGED <<cvars, nvars, lvars>>
    \/ GenFold /\ UNCHANGED <<cvars, nvars, lvars>>
    \/ ReflDecode /\ UNCHANGED <<cvars, nvars, lvars>>
    \/ ReflHydrate /\ UNCHANGED <<cvars, nvars, lvars>>
    \/ ReflRoute /\ UNCHANGED <<cvars, nvars, lvars>>
    \/ ReflInvoke /\ UNCHANGED <<cvars, nvars, lvars>>
    \/ ReflFold /\ UNCHANGED <<cvars, nvars, lvars>>

Spec == Init /\ [][Next]_vars

(* registration only, with the calls of Add recorded *)
NextRegistry ==
    \/ AddRecorded /\ UNCHANGED <<cvars, nvars, lvars>>
    \/ SetOnError /\ UNCHANGED <<cvars, nvars, lvars>>

SpecRegistry == Init /\ [][NextRegistry]_vars

(* construction only *)
NextNew ==
    \/ Construct /\ UNCHANGED <<cvars, dvars, lvars>>
    \/ Sensitive /\ UNCHANGED <<cvars, dvars, lvars>>
    \/ buildURL /\ UNCHANGED <<cvars, dvars, lvars>>

SpecNew == Init /\ [][NextNew]_vars

(* action registration only *)
NextAction ==
    \/ RegisterAction /\ UNCHANGED <<cvars, dvars, lvars>>
    \/ SetMethod /\ UNCHANGED <<cvars, dvars, lvars>>

SpecAction == Init /\ [][NextAction]_vars

InitCodec == CodecInit /\ DispatchInit /\ NoneBuilt /\ LockIdle

NextCodec ==
    \/ CodecEncode /\ UNCHANGED <<dvars, nvars, lvars>>
    \/ CodecTamper /\ UNCHANGED <<dvars, nvars, lvars>>
    \/ CodecDecode /\ UNCHANGED <<dvars, nvars, lvars>>

SpecCodec == InitCodec /\ [][NextCodec]_vars

(* two goroutines calling Add and one calling Get on the same registry *)
NextLock ==
    \/ \E p \in {"add1", "add2"} : Lock(p) /\ UNCHANGED <<cvars, nvars>>
    \/ \E p \in {"add1", "add2"} : registerComponent(p) /\ UNCHANGED <<cvars, nvars>>
    \/ \E p \in {"add1", "add2"} : HandleFunc(p) /\ UNCHANGED <<cvars, nvars>>
    \/ \E p \in {"add1", "add2"} : Unlock(p) /\ UNCHANGED <<cvars, nvars>>
    \/ RLock("get") /\ UNCHANGED <<cvars, nvars>>
    \/ Get("get") /\ UNCHANGED <<cvars, nvars>>

SpecLock == Init /\ [][NextLock]_vars

----------------------------------------------------------------------------
(* Properties of request dispatch *)

Has(e) == \E i \in 1..Len(log) : log[i].ev = e
Times(E) == Cardinality({ i \in 1..Len(log) : log[i].ev \in E })
Done == pc = "done"

(* what the registry's encoder makes of the request's token *)
ReqDecoded == Decode(RegEncoder, req.token, IsSensitive(req.target), ZeroProps)
IssuedDecoded(c) == Decode(RegEncoder, IssuedToken(c), IsSensitive(c), ZeroProps)

(* C4 as stated: for any request, the props handed to Hydrate, to an       *)
(* action handler and to Render are those decoded from a token that was     *)
(* verified under the registry key, never state the server did not issue.   *)
C4_PropsFromVerifiedToken ==
    \A i \in 1..Len(log) :
        /\ log[i].ev = "hydrate" =>
              req.token # <<>> /\ ReqDecoded.err = NoErr /\ log[i].arg = ReqDecoded.v
        /\ log[i].ev = "handler" =>
              req.token # <<>> /\ ReqDecoded.err = NoErr
              /\ log[i].arg = Hydrated(ReqDecoded.v)

(* C4 amended: the props handed to Hydrate are those decoded from a token  *)
(* the server issued and that verifies under the registry key, or the zero  *)
(* value when the request carries no token or the props have no decoder;    *)
(* an action handler gets what Hydrate made of them.                        *)
C4_PropsIssuedOrZero ==
    \A i \in 1..Len(log) :
        /\ log[i].ev = "hydrate" =>
              \/ /\ req.token = <<>> \/ ~IsDecodable(Serving)
                 /\ log[i].arg = ZeroProps
              \/ /\ req.token # <<>>
                 /\ ReqDecoded.err = NoErr
                 /\ log[i].arg = ReqDecoded.v
                 /\ log[i].arg = IssuedDecoded(req.target).v
        /\ log[i].ev = "handler" =>
              \E j \in 1..(i - 1) :
                  log[j].ev = "hydrate" /\ log[i].arg = Hydrated(log[j].arg)

C4_Witness ==
    /\ Has("handler")
    /\ req.token = IssuedToken(req.target)
    /\ \E i \in 1..Len(log) :
          log[i].ev = "hydrate" /\ log[i].arg = IssuedDecoded(req.target).v
          /\ log[i].arg # ZeroProps

(* C5: a request with a method other than GET or HEAD that does not carry  *)
(* HX-Request: true is answered 403 immediately, before any decode,         *)
(* hydrate or action dispatch runs for it.                                  *)
C5_CSRFGuard ==
    req.method \notin {"", "GET", "HEAD"} /\ req.hx # "true" /\ pc # "handler" =>
        /\ Done
        /\ w.status = 403
        /\ Times({"serve", "decode", "hydrate", "handler", "render"}) = 0

C5_Witness ==
    /\ Done /\ req.method = "POST" /\ req.hx # "true"
    /\ Prefix(req.target) \in DOMAIN components
    /\ req.token = IssuedToken(req.target) /\ req.path = "increment"
    /\ w.status = 403

C7_OneTerminalState ==
    Done /\ Has("serve") =>
        Times({"onerror", "notfound", "redirect", "skip", "render"}) = 1

(* the side effects applied after the handler returned, in order *)
EffectKinds == {"status", "headers", "redirect", "trigger", "render"}
Applied ==
    LET sel == SelectSeq(log, LAMBDA e : e.ev \in EffectKinds)
    IN  [i \in 1..Len(sel) |-> sel[i].ev]

(* the side effects a result asks for, in the order of the contract *)
Expected(res) ==
    (IF res.status # 0 THEN <<"status">> ELSE <<>>)
    \o (IF DOMAIN res.headers # {} THEN <<"headers">> ELSE <<>>)
    \o (IF res.redirect # "" THEN <<"redirect">>
        ELSE (IF res.trigger # "" \/ res.callback # "" THEN <<"trigger">> ELSE <<>>)
             \o (IF res.skip THEN <<>> ELSE <<"render">>))

(* C8: when a handler result is folded into the response, each side effect *)
(* is applied exactly once and in this order: status, then custom headers,  *)
(* then redirect or early return, then the event/flash response header,     *)
(* then (if not skipped and not redirected) render.                         *)
C8_EffectsOnceInOrder ==
    Done /\ result # NoResult /\ result.err = NoErr => Applied = Expected(result)

(* C9: every decode error, hydration error and handler-returned error is   *)
(* passed to the one registry-level error callback, which alone decides     *)
(* the response status and body; no dispatch path answers such an error     *)
(* with a status it hardcodes.                                              *)
C9_ErrorsReachCallback ==
    \A i \in 1..Len(log) :
        log[i].ev = "failed" =>
            /\ i < Len(log)
            /\ log[i + 1].ev = "onerror"
            /\ w = Finish(OnError(log[i + 1].arg.cb, NewWriter, log[i + 1].arg.err))

(* the error the default callback was called with, if it was called *)
DefaultCalls == { i \in 1..Len(log) : log[i].ev = "onerror" /\ log[i].arg.cb = "default" }

(* C10 as stated: the default error callback answers a NotFound error with *)
(* 404, a SignatureInvalid, DecryptFailed or InvalidFormat error with 400,  *)
(* and every other error with 500.                                          *)
C10_DefaultStatusAsStated ==
    \A i \in DefaultCalls :
        LET e == log[i].arg.err IN
        w.status = IF e = ErrNotFound THEN 404
                   ELSE IF e \in {ErrSignatureInvalid, ErrDecryptFailed, ErrInvalidFormat}
                        THEN 400
                   ELSE 500

(* C10 amended: the default error callback answers a NotFound error with   *)
(* 404, a SignatureInvalid or DecryptFailed error with 400, and every       *)
(* other error, InvalidFormat included, with 500.                           *)
C10_DefaultStatus ==
    \A i \in DefaultCalls :
        LET e == log[i].arg.err IN
        w.status = IF e = ErrNotFound THEN 404
                   ELSE IF e \in {ErrSignatureInvalid, ErrDecryptFailed} THEN 400
                   ELSE 500

C10_Witness ==
    \E i \in DefaultCalls : log[i].arg.err = ErrInvalidFormat /\ w.status = 500

----------------------------------------------------------------------------
(* C14: registering a component whose prefix equals the prefix of an       *)
(* already registered component panics at registration time, and the        *)
(* component registered first keeps serving that prefix: the second never   *)
(* shadows the first.                                                       *)
C14_PrefixCollisionPanics ==
    /\ (\E i, j \in 1..Len(added) :
            i < j /\ Prefix(added[i]) = Prefix(added[j])) => panicked
    /\ \A i \in 1..Len(added) :
          /\ Prefix(added[i]) \in DOMAIN components
          /\ (\A j \in 1..(i - 1) : Prefix(added[j]) # Prefix(added[i]))
                => components[Prefix(added[i])] = added[i]

C14_Witness ==
    /\ panicked
    /\ added = <<"counter", "vault", "twin">>
    /\ components[Prefix("twin")] = "counter"

(* C11: an error returned by Hydrate reaches the error callback wrapped as *)
(* HydrationFailed (errors.Is(err, ErrHydrationFailed) holds), so the       *)
(* callback can tell a failure before any handler ran from a failure        *)
(* inside handler logic.                                                    *)
C11_HydrateErrorWrapped ==
    \A i \in 1..Len(log) :
        (log[i].ev = "hydrate" /\ i < Len(log) /\ log[i + 1].ev = "failed") =>
            /\ i + 2 <= Len(log)
            /\ log[i + 2].ev = "onerror"
            /\ Is(log[i + 2].arg.err, ErrHydrationFailed)

(* the method an action answers to: POST unless declared otherwise *)
DeclaredMethod(c, a) ==
    IF Actions(c)[a].method = "" THEN "POST" ELSE Actions(c)[a].method

(* C12: a request that got as far as routing and whose method and sub-path *)
(* match neither the default render route nor any registered action is      *)
(* answered 404, and the error callback is not invoked for it (nor any      *)
(* handler or Render).                                                      *)
C12_UnmatchedIs404 ==
    ( /\ Done /\ Has("hydrate") /\ ~Has("failed")
      /\ ~(req.method = "GET" /\ req.path = "")
      /\ \A a \in DOMAIN Actions(Serving) :
            ~(req.path = a /\ req.method = DeclaredMethod(Serving, a)) )
    => /\ w.status = 404
       /\ Times({"notfound"}) = 1
       /\ Times({"onerror", "handler", "render", "redirect", "skip"}) = 0

(* C13: an action handler is invoked only for a request whose remaining    *)
(* sub-path equals the action's registered name and whose HTTP method       *)
(* equals the action's declared method.                                     *)
C13_HandlerOnlyOnMatch ==
    Has("handler") =>
        /\ req.path \in DOMAIN Actions(Serving)
        /\ req.method = DeclaredMethod(Serving, req.path)

(* C15: two components constructed with the same name from two distinct    *)
(* call sites get two distinct prefixes, and two components constructed     *)
(* from the same call site with the same name get the same prefix.          *)
C15_PrefixPerCallSite ==
    \A i, j \in 1..Len(built) :
        built[i].c.name = built[j].c.name =>
            /\ built[i].site # built[j].site => built[i].c.prefix # built[j].c.prefix
            /\ built[i].site = built[j].site => built[i].c.prefix = built[j].c.prefix

(* the errors of the codec's classification *)
ClassifiedErrors == {ErrDecryptFailed, ErrSignatureInvalid, ErrInvalidFormat}

(* C16: a token produced in one security mode never decodes successfully   *)
(* when Decode is told to expect the other mode; the call fails with a      *)
(* classified error and returns no data.                                    *)
C16_WrongModeClassified ==
    Decoded /\ decSensitive # sensitive =>
        /\ out.err # NoErr
        /\ \E e \in ClassifiedErrors : Is(out.err, e)
        /\ out.props = ZeroProps

(* C17: decoding, in signed mode, a string that has no separator fails     *)
(* with the InvalidFormat error and not with SignatureInvalid.              *)
C17_MissingSeparatorInvalidFormat ==
    Decoded /\ ~decSensitive /\ FirstDot(token) = 0 =>
        /\ Is(out.err, ErrInvalidFormat)
        /\ ~Is(out.err, ErrSignatureInvalid)

(* C18: NewEncoder returns a working encoder without error for a secret of *)
(* any length; a secret shorter than the required key length is replaced    *)
(* by a fixed-length key derived from it by a one-way hash.                 *)
C18_AnySecretAccepted ==
    cpc # "start" =>
        /\ cpc # "nokey"
        /\ NewEncoder(secret).err = NoErr
        /\ Len(NewEncoder(secret).key) = KeySize
        /\ Len(secret) < KeySize => NewEncoder(secret).key = Sum256(secret)

(* C19: for a component counter with props {Count int} and a POST action   *)
(* increment that returns Count+1, a POST to <prefix>/increment carrying    *)
(* HX-Request: true and a token that encodes Count=5 yields a 200 response  *)
(* whose rendered body reflects Count=6.                                    *)
C19_IncrementScenario ==
    ( /\ Done /\ Has("handler") /\ Serving = "counter"
      /\ req.method = "POST" /\ req.path = "increment" /\ req.hx = "true"
      /\ req.token = IssuedToken("counter") /\ IssuedProps.Count = 5
      /\ result = OK(result.props) )
    => /\ w.status = 200
       /\ w.body.kind = "html"
       /\ w.body.count = 6

(* the error Hydrate returned for the request, NoErr when it did not fail  *)
HydrateError ==
    IF \E i \in 1..(Len(log) - 1) : log[i].ev = "hydrate" /\ log[i + 1].ev = "failed"
    THEN log[(CHOOSE i \in 1..(Len(log) - 1) :
                 log[i].ev = "hydrate" /\ log[i + 1].ev = "failed") + 1].arg
    ELSE NoErr

(* the callback the request's error went to, else the registry's *)
CallbackUsed ==
    IF Has("onerror")
    THEN log[CHOOSE i \in 1..Len(log) : log[i].ev = "onerror"].arg.cb
    ELSE onError

(* C20: for the same component, key and request, the reflective dispatch   *)
(* path and the generated dispatch path produce the same response status,   *)
(* headers and body: the response a request gets from the path that served  *)
(* it is the one the other path gives for the same component, request,      *)
(* Hydrate outcome and handler result.                                      *)
C20_PathsAgree ==
    Done /\ Has("serve") /\ Serving \in {"counter", "twin"} =>
        Response(w) =
            Response(IF Generated(Serving)
                     THEN ReflServe("counter", req, HydrateError, result, CallbackUsed)
                     ELSE GenServe("counter", req, HydrateError, result))

(* GenServe and ReflServe give the response the dispatch actions produce *)
ServeAgreesWithDispatch ==
    Done /\ Has("serve") =>
        Response(w) =
            Response(IF Generated(Serving)
                     THEN GenServe(Serving, req, HydrateError, result)
                     ELSE ReflServe(Serving, req, HydrateError, result, CallbackUsed))

----------------------------------------------------------------------------
(* C21: for every action registered on a component, the generated dispatch *)
(* switch and the generated action builder use exactly the (HTTP method,    *)
(* name) pair registered at runtime, including a method set with            *)
(* .Method(...): a request with the registered pair reaches the handler,    *)
(* and the builder names the registered method.                             *)
C21_GeneratedUsesRegisteredPair ==
    ( /\ Done /\ Has("hydrate") /\ ~Has("failed") /\ Generated(Serving)
      /\ req.path \in DOMAIN Actions(Serving) )
    => /\ ActionBuilderOf(Serving, req.path).Method = DeclaredMethod(Serving, req.path)
       /\ req.method = DeclaredMethod(Serving, req.path) => Has("handler")

(* C22: custom headers and the HX-Trigger header carried by a handler      *)
(* result are present in the response the client receives also when the     *)
(* result sets a status code.                                               *)
C22_HeadersWithStatus ==
    ( /\ Done /\ Has("handler") /\ result.err = NoErr
      /\ result.status # 0 /\ result.redirect = "" )
    => /\ w.status = result.status
       /\ \A k \in DOMAIN result.headers :
             k \in DOMAIN w.sent /\ w.sent[k] = result.headers[k]
       /\ result.trigger # "" => "HX-Trigger" \in DOMAIN w.sent

(* the shapes an HX-Trigger value may have, over its tokens *)
Punctuation == {"{", "}", ":", ", "}
BraceDepth(v, i) ==
    Cardinality({ j \in 1..i : v[j] = "{" }) - Cardinality({ j \in 1..i : v[j] = "}" })
IsEventName(v) == Len(v) = 1 /\ v[1] \notin Punctuation
IsEventObject(v) ==
    /\ Len(v) >= 2 /\ v[1] = "{" /\ v[Len(v)] = "}"
    /\ BraceDepth(v, Len(v)) = 0
    /\ \A i \in 1..(Len(v) - 1) : BraceDepth(v, i) > 0
    /\ Len(v) > 2 => v[2] \notin Punctuation /\ v[3] = ":"

(* C23: whenever the dispatcher sets the HX-Trigger response header, its   *)
(* value is either a bare event name or a JSON object whose top-level keys  *)
(* are event names.                                                         *)
C23_TriggerValueShape ==
    "HX-Trigger" \in DOMAIN w.hdr =>
        IsEventName(w.hdr["HX-Trigger"]) \/ IsEventObject(w.hdr["HX-Trigger"])

(* C24: every flash message that a handler adds to a result which goes on  *)
(* to render is delivered in the response as an out-of-band toast           *)
(* fragment, in the order the messages were added.                          *)
C24_FlashesDelivered ==
    ( /\ Done /\ Has("handler") /\ Has("render")
      /\ result.err = NoErr /\ ~result.skip /\ result.redirect = "" )
    => w.body.toasts = result.flashes

(* C25: a component's security mode is Signed by default and never changes *)
(* after the component is constructed, so every token the component issues  *)
(* and every token it decodes use the same mode (the dispatchers decode in  *)
(* the mode c.IsSensitive() reports at the time of the request).            *)
C25_ModeFixed ==
    \A i \in 1..Len(built) :
        \A m \in built[i].issued : m = built[i].c.sensitive

(* the registration made last under a name *)
LastRegistration(n) ==
    CHOOSE k \in 1..Len(defs) :
        defs[k].name = n /\ \A j \in (k + 1)..Len(defs) : defs[j].name # n

(* C26: after any sequence of Action registrations on a component, the     *)
(* action table holds exactly one entry per distinct name, and that entry   *)
(* has the handler and the method of the last registration made under that  *)
(* name.                                                                    *)
C26_LastRegistrationWins ==
    /\ DOMAIN actions = { defs[k].name : k \in 1..Len(defs) }
    /\ \A n \in DOMAIN actions :
          /\ actions[n] = LastRegistration(n)
          /\ defs[actions[n]].handler = defs[LastRegistration(n)].handler
          /\ defs[actions[n]].method = defs[LastRegistration(n)].method

C26_Witness ==
    /\ Len(defs) = 2
    /\ defs[1].name = "edit" /\ defs[2].name = "edit"
    /\ defs[1].handler = "h1" /\ defs[2].handler = "h2"
    /\ defs[1].method = "GET" /\ defs[2].method = "DELETE"
    /\ actions["edit"] = 2

(* C27: Add verifies at registration time that a component implements      *)
(* Hydrate and Render and panics if it does not, so a component missing     *)
(* either is never registered (and so never reached by a request).          *)
C27_InterfacesVerifiedAtAdd ==
    /\ \A p \in DOMAIN components :
          Implements(components[p], "Hydrate") /\ Implements(components[p], "Render")
    /\ (\E i \in 1..Len(added) :
           ~Implements(added[i], "Hydrate") \/ ~Implements(added[i], "Render"))
       => panicked

----------------------------------------------------------------------------
(* Properties of concurrent registration *)

Registering == { p \in {"add1", "add2"} : call[p].pc \in {"locked", "stored"} }

(* C28: each registration holds the registry's exclusive lock for its whole *)
(* duration: two concurrent Add calls never interleave their changes to the *)
(* routing table (at most one Add is between its Lock and its Unlock, and   *)
(* it is the holder of the lock), and a concurrent Get never observes a     *)
(* partially registered component (one stored but not yet routed).          *)
C28_RegistrationExclusive ==
    /\ Cardinality(Registering) <= 1
    /\ \A p \in Registering : mu.w = p /\ mu.r = {}
    /\ call["get"].pc = "rlocked" => Registering = {}
    /\ { c \o "/" : c \in seen.comps } = seen.routes

(* both Add calls have run, one after the other, and a Get found something  *)
C28_Witness ==
    /\ \A p \in {"add1", "add2"} : call[p].pc \in {"returned", "panicked"}
    /\ Cardinality(DOMAIN components) >= 2
    /\ call["get"].pc = "returned" /\ seen.comps # {}
    /\ seen.comps # DOMAIN components

(* C29: if Add panics while registering one of several components given in  *)
(* the same call, no component of that call remains registered or routable  *)
(* afterwards.                                                              *)
C29_PanickedAddLeavesNothing ==
    \A p \in {"add1", "add2"} :
        call[p].pc = "panicked" =>
            \A j \in 1..(call[p].i - 1) :
                /\ ~(Prefix(call[p].args[j]) \in DOMAIN components
                      /\ components[Prefix(call[p].args[j])] = call[p].args[j])
                /\ (Prefix(call[p].args[j]) \o "/") \notin mux

(* C30: an error raised while serving a request is reported to the callback *)
(* assigned to Registry.OnError at the time of that request, whether that   *)
(* callback was assigned before or after the component was added: every     *)
(* step that records a failure also records, right after it, the call of    *)
(* the callback the registry holds at that step.                            *)
C30_ErrorReachesCurrentCallback ==
    [][\A i \in (Len(log) + 1)..Len(log') :
          log'[i].ev = "failed" =>
              /\ i < Len(log')
              /\ log'[i + 1].ev = "onerror"
              /\ log'[i + 1].arg.cb = onError]_vars

====
